---- MODULE Spec2Model ----
(***************************************************************************)
(* Model of the concurrent batch helpers of the EnclaveRunner CLI:         *)
(*   getRoleInfo, getResourceGroupInfo   (src/cmd/common.go)               *)
(*   getUsersByIds / getUserById         (src/cmd/common.go, fatal on      *)
(*                                        error through handleResponse)    *)
(*   getUsersByIds / getUserById         (src/unnamed/part_001, the        *)
(*                                        variant that returns an error)   *)
(* One run of the model is one invocation of one of these functions.  The  *)
(* main goroutine, the N worker goroutines and the closer goroutine are    *)
(* interleaved at their communication points: a remote request, its reply, *)
(* a channel send, wg.Done, close, a channel receive.                      *)
(* Positions are 1-based here (Go index i is position i+1).                *)
(* Around the helpers the model has the configuration they run with:       *)
(*   config.Init, BasicAuth.GetAuthHeader  (src/unnamed/part_006)          *)
(*   rootCmd.PersistentPreRun and flags    (src/cmd/root.go)               *)
(*   getClient                             (src/cmd/common.go)             *)
(*   the rbac commands that call them      (src/cmd/rbac.go)               *)
(*   the config command                    (src/cmd/config.go)             *)
(* and the commands that change the service, with the parsers they use:    *)
(*   user delete / update / me update      (src/cmd/user.go)               *)
(*   rbac user assign / remove             (src/cmd/rbac.go, part_004)     *)
(*   artifact tag add / remove, parseFQN,                                  *)
(*   parseFQNWithIdentifier                (src/unnamed/part_002)          *)
(*   handleResponse                        (src/cmd/common.go, part_001)   *)
(***************************************************************************)
EXTENDS Integers, Sequences, FiniteSets, TLC

VARIABLES
    fn,           \* the function invoked in this run
    keys,         \* its argument: roles / resourceGroups / userIds
    srvPolicies,  \* remote service: the policy list GET /rbac/policy answers with
    srvFaults,    \* remote service: whether requests may fail in this run
    pc,           \* position of the calling goroutine
    bulkCalls,    \* number of GetRbacPolicyWithResponse requests issued
    policiesResp, \* reply of the bulk request
    policies,     \* local `policies` (a pointer: Nil until assigned)
    roleCounts,   \* map key -> *RoleInfo / *ResourceGroupInfo
    wpc,          \* position of each worker goroutine
    resp,         \* reply received by each worker
    wg,           \* sync.WaitGroup counter
    resultChan,   \* buffered channel contents, oldest first
    closed,       \* the channel has been closed
    users,        \* local `users` slice of getUsersByIds
    errs,         \* local `errs` slice of getUsersByIds
    result,       \* returned slice
    resultNil,    \* the returned slice is nil
    retErr,       \* returned error (a pointer: Nil or Ref(error))
    cfg,          \* config.Cfg
    requests,     \* the HTTP requests sent so far
    errLogged,    \* an error has been logged (log.Error / log.Fatal)
    printed,      \* the calling command has rendered its table
    slotWrites,   \* number of assignments the range loop made to each slot
    sources,      \* what the configuration is loaded from: flags, environment, files
    rows,         \* the rows the config command built for display
    args,         \* the arguments of the command
    flagVals,     \* the values of the flags of the command
    cmdResp,      \* the replies received by the requests of the command itself
    out,          \* what the function applied to the arguments returned
    ctxDone,      \* the context the caller passed has been cancelled
    ctxErrs,      \* positions whose call was ended by the cancellation
    chanLog       \* how often the channel was sent on, received from, closed

vars == <<fn, keys, srvPolicies, srvFaults, pc, bulkCalls, policiesResp, policies,
          roleCounts, wpc, resp, wg, resultChan, closed, users, errs, result,
          resultNil, retErr, cfg, requests, errLogged, printed, slotWrites,
          sources, rows, args, flagVals, cmdResp, out, ctxDone, ctxErrs,
          chanLog>>

\* The state of the command around the helpers.
cmdVars == <<args, flagVals, cmdResp, out>>

\* The state of the context handed to the helper.
ctxVars == <<ctxDone, ctxErrs>>

-----------------------------------------------------------------------------
(* Bounds of the model *)

MaxKeys == 2

-----------------------------------------------------------------------------
(* Go values *)

\* A pointer is Nil or Ref(v).
Nil == <<>>
Ref(v) == <<v>>
Deref(p) == p[1]

Range(s) == {s[i] : i \in 1..Len(s)}

SeqsUpTo(S, n) == UNION {[1..m -> S] : m \in 0..n}

InfoFns == {"getRoleInfo", "getResourceGroupInfo"}
UsersFns == {"getUsersByIds", "getUsersByIdsErr"}

\* client.RBACPolicy
RBACPolicy(role, rg, perm) == [Role |-> role, ResourceGroup |-> rg, Permission |-> perm]

\* RoleInfo and ResourceGroupInfo
RoleInfo(role, userCount, policyCount) ==
    [Role |-> role, UserCount |-> userCount, PolicyCount |-> policyCount]

ResourceGroupInfo(rg, endpointCount, policyCount) ==
    [ResourceGroup |-> rg, EndpointCount |-> endpointCount, PolicyCount |-> policyCount]

\* The record either function builds for a key.
NewInfo(f, key, perKeyCount, policyCount) ==
    IF f = "getRoleInfo"
    THEN RoleInfo(key, perKeyCount, policyCount)
    ELSE ResourceGroupInfo(key, perKeyCount, policyCount)

KeyOf(info) == IF "Role" \in DOMAIN info THEN info.Role ELSE info.ResourceGroup

PerKeyCountOf(info) ==
    IF "UserCount" \in DOMAIN info THEN info.UserCount ELSE info.EndpointCount

-----------------------------------------------------------------------------
(* The remote service: what the requests of a run are answered with *)

\* A reply as the generated client hands it back: (resp, err).  A transport
\* error leaves no response; JSON200 is set only on a 200 reply.
Reply(err, status, json200) == [err |-> err, status |-> status, JSON200 |-> json200]

TransportError == Reply(TRUE, 0, Nil)
StatusReply(status) == Reply(FALSE, status, Nil)
OkReply(body) == Reply(FALSE, 200, Ref(body))
NoReply == Reply(FALSE, 0, Nil)

\* Statuses a failing request is answered with.
FailStatuses == {204, 401, 404, 500}

\* Data held by the service.
RoleMembers ==
    [r \in {"admin", "editor", "viewer"} |->
        CASE r = "admin" -> <<"u1", "u2">>
          [] r = "editor" -> <<"u1">>
          [] OTHER -> <<>>]

ResourceGroupEndpoints ==
    [g \in {"rg1", "rg2"} |->
        IF g = "rg1" THEN <<"/a", "/b">> ELSE <<"/c">>]

UserRecord(id) == [Id |-> id, Name |-> id, DisplayName |-> id]

PerKeyData(f, key) ==
    CASE f = "getRoleInfo" -> RoleMembers[key]
      [] f = "getResourceGroupInfo" -> ResourceGroupEndpoints[key]
      [] OTHER -> UserRecord(key)

BulkReplies(faults, list) ==
    {OkReply(list)} \cup
    (IF faults THEN {TransportError} \cup {StatusReply(s) : s \in FailStatuses} ELSE {})

\* Keys the service holds an entry for.
KnownKeys(f) ==
    CASE f = "getRoleInfo" -> DOMAIN RoleMembers
      [] f = "getResourceGroupInfo" -> DOMAIN ResourceGroupEndpoints
      [] OTHER -> {"u1", "u2"}

\* The service answers a request for a key it does not hold with 404.
PerKeyReplies(faults, f, key) ==
    (IF key \in KnownKeys(f) THEN {OkReply(PerKeyData(f, key))} ELSE {StatusReply(404)}) \cup
    (IF faults THEN {TransportError} \cup {StatusReply(s) : s \in FailStatuses} ELSE {})

\* Inputs of the runs explored.
KeySet(f) ==
    CASE f = "getRoleInfo" -> {"admin", "editor"}
      [] f = "getResourceGroupInfo" -> {"rg1", "rg2"}
      [] OTHER -> {"u1", "u2"}

PolicyLists ==
    { <<>>,
      <<RBACPolicy("admin", "rg1", "GET"), RBACPolicy("*", "*", "*")>>,
      <<RBACPolicy("Admin", "RG1", "POST"), RBACPolicy("editor", "rg2", "GET"),
        RBACPolicy("admin", "rg1", "POST")>> }

-----------------------------------------------------------------------------
(* getRoleInfo / getResourceGroupInfo: the sequential part *)

\* `err != nil || policiesResp.JSON200 == nil`
BulkFailed(r) == r.err \/ r.JSON200 = Nil

\* The early return: every key with zero counts.
ZeroInfos(f, ks) == [i \in 1..Len(ks) |-> NewInfo(f, ks[i], 0, 0)]

\* roleCounts := make(map[string]*RoleInfo); one entry per distinct key.
InitCounts(f, ks) == [k \in Range(ks) |-> NewInfo(f, k, 0, 0)]

\* Mutant of Discriminator: getRoleInfo looks the map up with the resource group,
\* as its twin getResourceGroupInfo does.
DiscriminatorOfTwin(f, policy) == policy.ResourceGroup

\* The policy field each function looks its map up with.
Discriminator(f, policy) ==
    IF f = "getRoleInfo" THEN policy.Role ELSE policy.ResourceGroup

\* for _, policy := range policies { if info, exists := ...; exists { info.PolicyCount++ } }
RECURSIVE CountPolicies(_, _, _)
CountPolicies(f, counts, ps) ==
    IF ps = <<>> THEN counts
    ELSE LET d == Discriminator(f, Head(ps))
             next == IF d \in DOMAIN counts
                     THEN [counts EXCEPT ![d].PolicyCount = @ + 1]
                     ELSE counts
         IN  CountPolicies(f, next, Tail(ps))

\* What a worker sends: the key and len(*resp.JSON200), or 0 on any failure.
InfoMsg(key, r) ==
    IF ~r.err /\ r.JSON200 # Nil
    THEN [role |-> key, count |-> Len(Deref(r.JSON200))]
    ELSE [role |-> key, count |-> 0]

\* if info, exists := roleCounts[result.role]; exists { info.UserCount = result.count }
ApplyInfoMsg(f, counts, m) ==
    IF m.role \in DOMAIN counts
    THEN IF f = "getRoleInfo"
         THEN [counts EXCEPT ![m.role].UserCount = m.count]
         ELSE [counts EXCEPT ![m.role].EndpointCount = m.count]
    ELSE counts

\* Mutant of ToSlice: the slice is sized by the map, one record per distinct key.
ToSliceOverMap(ks, counts) == [i \in 1..Cardinality(DOMAIN counts) |-> counts[ks[i]]]

\* Convert map to slice in original order.
ToSlice(ks, counts) == [i \in 1..Len(ks) |-> counts[ks[i]]]

-----------------------------------------------------------------------------
(* getUserById / getUsersByIds *)

\* Mutant of HandleResponseFatal: only a transport error is fatal, a status is not.
HandleResponseIgnoresStatus(r) == r.err

\* handleResponse (common.go): log.Fatal ends the process unless the request
\* returned no error, a response, and a status in 200..299.
HandleResponseFatal(r) ==
    \/ r.err
    \/ ~(r.status >= 200 /\ r.status < 300)

\* getUserById (common.go), once handleResponse has let it continue: resp.JSON200.
GetUserById(r) == r.JSON200

\* getUserById (part_001): (user, err).
GetUserByIdErr(r) ==
    IF r.err
    THEN [user |-> Nil, err |-> Ref([msg |-> "transport error", status |-> 0])]
    ELSE IF r.status # 200
         THEN [user |-> Nil,
               err |-> Ref([msg |-> "failed to get user: status", status |-> r.status])]
         ELSE [user |-> r.JSON200, err |-> Nil]

\* users := make([]*client.UserResponse, len(userIds))
NilUsers(ks) == [i \in 1..Len(ks) |-> Nil]

\* Mutant of FetchError: the count stated is that of the ids, not of the errors.
FetchErrorCountingIds(es) ==
    [count |-> Len(keys), lines |-> [i \in 1..Len(es) |-> [n |-> i, err |-> es[i]]]]

\* fmt.Errorf("failed to fetch %d user(s):" ...) followed by one "[i+1] err" line per error.
FetchError(es) == [count |-> Len(es), lines |-> [i \in 1..Len(es) |-> [n |-> i, err |-> es[i]]]]

-----------------------------------------------------------------------------
(* config.Cfg and getClient *)

\* config.BasicAuth
BasicAuth(username, password) == [Username |-> username, Password |-> password]

\* config.Config: the server URL and the auth provider (a nil interface when unset).
Config(url, auth) == [APIServerURL |-> url, Auth |-> auth]

\* base64.StdEncoding.EncodeToString: an injective encoding of its argument.
Base64(text) == [base64 |-> text]

\* BasicAuth.GetAuthHeader
GetAuthHeader(auth) == <<"Basic ", Base64(auth.Username \o ":" \o auth.Password)>>

\* Mutant of ClientConfigured: the server URL is not looked at.
ClientConfiguredWithoutURL(c) == c.Auth # Nil

\* getClient goes on only with a non-empty server URL and an auth provider;
\* otherwise log.Fatal ends the process.
ClientConfigured(c) == c.APIServerURL # "" /\ c.Auth # Nil

\* A request as it leaves the client: the request editor of getClient sets the
\* Authorization header from config.Cfg.Auth.
\* The context every call of a command is made with: the ctx of the command,
\* handed down to the helpers as their first parameter.
CallerCtx == "ctx"

Request(op, pos, param, c) ==
    [op |-> op, pos |-> pos, param |-> param, server |-> c.APIServerURL,
     Authorization |-> GetAuthHeader(Deref(c.Auth)), ctx |-> CallerCtx]

\* The per-key operation of each function.
PerKeyOp(f) ==
    CASE f = "getRoleInfo" -> "GetRbacRole"
      [] f = "getResourceGroupInfo" -> "GetRbacResourceGroup"
      [] OTHER -> "GetUsersUser"

-----------------------------------------------------------------------------
(* config.Init: the configuration is loaded from flags, environment and files *)

ConfigKeys == {"api_server_url", "auth.username", "auth.password"}

\* v.SetDefault("api_server_url", "https://api.enclave.io")
DefaultURL == "https://api.enclave.io"

Defaults == [k \in {"api_server_url"} |-> DefaultURL]

\* v.AddConfigPath: the directories searched for cli.yml, in the order added.
SearchPaths == <<".", "$HOME/.enclave", "/etc/enclave">>

\* The file given with --config in the runs that give one.
CustomFile == "custom.yml"

\* The sources of one run: the flags given on the command line and the
\* environment variables set (functions from keys to values), the value of
\* --config ("" when not given), and for each path a pointer to the settings of
\* the file there (Nil when there is no file).
Sources(flags, env, cfgFile, files) ==
    [flags |-> flags, env |-> env, cfgFile |-> cfgFile, files |-> files]

\* v.ReadInConfig: the file named by --config when given; otherwise the first of
\* the search paths that holds a file.  One file is read, files are not merged.
RECURSIVE FirstFile(_, _)
FirstFile(src, n) ==
    IF n > Len(SearchPaths) THEN Nil
    ELSE IF src.files[SearchPaths[n]] # Nil THEN src.files[SearchPaths[n]]
    ELSE FirstFile(src, n + 1)

ReadInConfig(src) ==
    IF src.cfgFile # "" THEN src.files[src.cfgFile] ELSE FirstFile(src, 1)

\* v.GetString(key): a flag that was given, else a non-empty environment
\* variable, else the config file read, else the default, else "".
GetString(src, key) ==
    IF key \in DOMAIN src.flags THEN src.flags[key]
    ELSE IF key \in DOMAIN src.env /\ src.env[key] # "" THEN src.env[key]
    ELSE IF ReadInConfig(src) # Nil /\ key \in DOMAIN Deref(ReadInConfig(src))
         THEN Deref(ReadInConfig(src))[key]
    ELSE IF key \in DOMAIN Defaults THEN Defaults[key]
    ELSE ""

\* config.Cfg before Init: the zero Config.
ZeroCfg == Config("", Nil)

\* config.Init: Unmarshal sets APIServerURL; Auth is set only when a username or
\* a password is configured.
ConfigInit(src) ==
    Config(GetString(src, "api_server_url"),
           IF GetString(src, "auth.username") # "" \/ GetString(src, "auth.password") # ""
           THEN Ref(BasicAuth(GetString(src, "auth.username"),
                              GetString(src, "auth.password")))
           ELSE Nil)

\* The sources of the runs of the batch helpers: credentials from the environment.
NoFiles == [p \in Range(SearchPaths) \cup {CustomFile} |-> Nil]

EnvCredentials ==
    [k \in {"auth.username", "auth.password"} |->
        IF k = "auth.username" THEN "alice" ELSE "secret"]

DefaultSources == Sources(<<>>, EnvCredentials, "", NoFiles)

ValidCfg == ConfigInit(DefaultSources)

\* The slots the range loop assigns to: the map entries of roleCounts, or the
\* indices of users.
Slots(f, ks) == IF f \in InfoFns THEN Range(ks) ELSE 1..Len(ks)

-----------------------------------------------------------------------------
(* Initial states *)

InitLocals ==
    /\ bulkCalls = 0
    /\ policiesResp = NoReply
    /\ policies = Nil
    /\ roleCounts = <<>>
    /\ wpc = [i \in 1..Len(keys) |-> "idle"]
    /\ resp = [i \in 1..Len(keys) |-> NoReply]
    /\ wg = 0
    /\ resultChan = <<>>
    /\ closed = FALSE
    /\ users = <<>>
    /\ errs = <<>>
    /\ result = <<>>
    /\ resultNil = FALSE
    /\ retErr = Nil
    /\ requests = {}
    /\ errLogged = FALSE
    /\ printed = FALSE
    /\ slotWrites = [s \in Slots(fn, keys) |-> 0]
    /\ chanLog = [sent |-> 0, received |-> 0, closes |-> 0]
    /\ rows = <<>>

\* No command state: the run is that of a helper.
NoFlags == [k \in {} |-> ""]

InitNoCommand ==
    /\ args = <<>>
    /\ flagVals = NoFlags
    /\ cmdResp = <<>>
    /\ out = Nil

\* The context is context.Background() unless the run says otherwise.
InitCtx ==
    /\ ctxDone = FALSE
    /\ ctxErrs = {}

\* A run of a batch helper starts with the configuration loaded.
InitRun ==
    /\ pc = "start"
    /\ InitNoCommand
    /\ InitCtx
    /\ sources = DefaultSources
    /\ cfg = ValidCfg
    /\ InitLocals

Init ==
    /\ fn \in InfoFns \cup UsersFns
    /\ keys \in SeqsUpTo(KeySet(fn), MaxKeys)
    /\ srvPolicies \in PolicyLists
    /\ srvFaults = TRUE
    /\ InitRun

-----------------------------------------------------------------------------
(* The calling goroutine up to the fan-out *)

\* c := getClient(); c.GetRbacPolicyWithResponse(ctx): the request goes out.
IssueBulk ==
    /\ pc = "start"
    /\ fn \in InfoFns
    /\ IF ClientConfigured(cfg)
       THEN /\ bulkCalls' = bulkCalls + 1
            /\ requests' = requests \cup {Request("GetRbacPolicy", 0, "", cfg)}
            /\ pc' = "bulk"
            /\ UNCHANGED errLogged
       ELSE /\ pc' = "exited"
            /\ errLogged' = TRUE
            /\ UNCHANGED <<bulkCalls, requests>>
    /\ UNCHANGED <<chanLog, cmdVars, ctxVars, sources, rows, cfg, fn, keys, srvPolicies,
                   srvFaults, policiesResp, policies, roleCounts, wpc, resp, wg, resultChan,
                   closed, users, errs, result, resultNil, retErr, printed, slotWrites>>

\* Mutant of BulkReturns: a failed bulk fetch is treated as an empty policy list
\* and the per-key phase still runs.
BulkReturnsDegrading ==
    /\ pc = "bulk"
    /\ \E r \in BulkReplies(srvFaults, srvPolicies) :
        /\ policiesResp' = r
        /\ policies' = IF BulkFailed(r) THEN Ref(<<>>) ELSE r.JSON200
        /\ roleCounts' = CountPolicies(fn, InitCounts(fn, keys),
                                       IF BulkFailed(r) THEN <<>> ELSE Deref(r.JSON200))
        /\ wpc' = [i \in 1..Len(keys) |-> "ready"]
        /\ wg' = Len(keys)
        /\ pc' = "collect"
    /\ UNCHANGED <<chanLog, cmdVars, ctxVars, sources, rows, cfg, fn, keys, srvPolicies,
                   srvFaults, bulkCalls, resp, resultChan, closed, users, errs, result,
                   resultNil, retErr, requests, errLogged, printed, slotWrites>>

\* The bulk reply arrives.  On failure the function returns the zero records at
\* once; otherwise it builds the map, counts the policies, starts one worker per
\* key (wg.Add(1); go func) and the closer, and goes on to range over the channel.
BulkReturns ==
    /\ pc = "bulk"
    /\ \E r \in BulkReplies(srvFaults, srvPolicies) :
        /\ policiesResp' = r
        /\ IF BulkFailed(r)
           THEN /\ result' = ZeroInfos(fn, keys)
                /\ pc' = "returned"
                /\ UNCHANGED <<policies, roleCounts, wpc, wg>>
           ELSE /\ policies' = r.JSON200
                /\ roleCounts' = CountPolicies(fn, InitCounts(fn, keys), Deref(r.JSON200))
                /\ wpc' = [i \in 1..Len(keys) |-> "ready"]
                /\ wg' = Len(keys)
                /\ pc' = "collect"
                /\ UNCHANGED result
    /\ UNCHANGED <<chanLog, cmdVars, ctxVars, sources, rows, cfg, fn, keys, srvPolicies,
                   srvFaults, bulkCalls, resp, resultChan, closed, users, errs, resultNil,
                   retErr, requests, errLogged, printed, slotWrites>>

\* getUsersByIds: the empty-input return, or the fan-out.
StartUsers ==
    /\ pc = "start"
    /\ fn \in UsersFns
    /\ IF Len(keys) = 0
       THEN /\ result' = <<>>
            /\ pc' = "returned"
            /\ UNCHANGED <<wpc, wg, users>>
       ELSE /\ wpc' = [i \in 1..Len(keys) |-> "ready"]
            /\ wg' = Len(keys)
            /\ users' = NilUsers(keys)
            /\ pc' = "collect"
            /\ UNCHANGED result
    /\ UNCHANGED <<chanLog, cmdVars, ctxVars, sources, rows, cfg, fn, keys, srvPolicies,
                   srvFaults, bulkCalls, policiesResp, policies, roleCounts, resp,
                   resultChan, closed, errs, resultNil, retErr, requests, errLogged,
                   printed, slotWrites>>

-----------------------------------------------------------------------------
(* The worker goroutines, the closer and the collecting loop *)

\* The value a worker puts on the channel for the reply r of position i.
WorkerMsg(f, key, i, r) ==
    CASE f \in InfoFns -> InfoMsg(key, r)
      [] f = "getUsersByIds" -> [user |-> GetUserById(r), index |-> i]
      [] OTHER -> [user |-> GetUserByIdErr(r).user, err |-> GetUserByIdErr(r).err,
                   index |-> i]

\* Mutant of WorkerCall: every worker fetches the policy list again before its own request.
WorkerCallRefetching(i) ==
    /\ pc = "collect"
    /\ wpc[i] = "ready"
    /\ wpc' = [wpc EXCEPT ![i] = "calling"]
    /\ bulkCalls' = bulkCalls + 1
    /\ requests' = requests \cup {Request("GetRbacPolicy", i, "", cfg),
                                  Request(PerKeyOp(fn), i, keys[i], cfg)}
    /\ UNCHANGED <<chanLog, cmdVars, ctxVars, sources, rows, cfg, fn, keys, srvPolicies,
                   srvFaults, pc, policiesResp, policies, roleCounts, resp, wg, resultChan,
                   closed, users, errs, result, resultNil, retErr, errLogged, printed,
                   slotWrites>>

\* Mutant of WorkerCall: the worker makes its request with a context of its own
\* instead of the ctx it was given.
WorkerCallDetached(i) ==
    /\ pc = "collect"
    /\ wpc[i] = "ready"
    /\ wpc' = [wpc EXCEPT ![i] = "calling"]
    /\ requests' = requests \cup
            {[Request(PerKeyOp(fn), i, keys[i], cfg) EXCEPT !.ctx = "context.Background()"]}
    /\ UNCHANGED <<chanLog, cmdVars, ctxVars, sources, rows, cfg, fn, keys, srvPolicies,
                   srvFaults, pc, bulkCalls, policiesResp, policies, roleCounts, resp, wg,
                   resultChan, closed, users, errs, result, resultNil, retErr, errLogged,
                   printed, slotWrites>>

\* Mutant of WorkerCall: a worker may send its request while the bulk request is
\* still unanswered.
WorkerCallBeforeBulkReply(i) ==
    /\ pc \in {"bulk", "collect"}
    /\ wpc[i] \in {"idle", "ready"}
    /\ pc = "collect" => wpc[i] = "ready"
    /\ wpc' = [wpc EXCEPT ![i] = "calling"]
    /\ requests' = requests \cup {Request(PerKeyOp(fn), i, keys[i], cfg)}
    /\ UNCHANGED <<chanLog, cmdVars, ctxVars, sources, rows, cfg, fn, keys, srvPolicies,
                   srvFaults, pc, bulkCalls, policiesResp, policies, roleCounts, resp, wg,
                   resultChan, closed, users, errs, result, resultNil, retErr, errLogged,
                   printed, slotWrites>>

\* The worker of position i sends its request.  getUserById builds its own client
\* with getClient first; the workers of the other two functions use the caller's.
WorkerCall(i) ==
    /\ pc = "collect"
    /\ wpc[i] = "ready"
    /\ IF fn \in UsersFns /\ ~ClientConfigured(cfg)
       THEN /\ pc' = "exited"
            /\ errLogged' = TRUE
            /\ UNCHANGED <<wpc, requests>>
       ELSE /\ wpc' = [wpc EXCEPT ![i] = "calling"]
            /\ requests' = requests \cup {Request(PerKeyOp(fn), i, keys[i], cfg)}
            /\ UNCHANGED <<pc, errLogged>>
    /\ UNCHANGED <<chanLog, cmdVars, ctxVars, sources, rows, cfg, fn, keys, srvPolicies,
                   srvFaults, bulkCalls, policiesResp, policies, roleCounts, resp, wg,
                   resultChan, closed, users, errs, result, resultNil, retErr, printed,
                   slotWrites>>

\* The reply of position i arrives.  In getUsersByIds of common.go the worker runs
\* handleResponse, which ends the process on any failure.
WorkerReturns(i) ==
    /\ pc = "collect"
    /\ wpc[i] = "calling"
    /\ \E r \in PerKeyReplies(srvFaults, fn, keys[i]) :
        /\ resp' = [resp EXCEPT ![i] = r]
        /\ IF fn = "getUsersByIds" /\ HandleResponseFatal(r)
           THEN /\ pc' = "exited"
                /\ errLogged' = TRUE
                /\ UNCHANGED wpc
           ELSE /\ wpc' = [wpc EXCEPT ![i] = "replied"]
                /\ errLogged' = (errLogged \/ (fn = "getUsersByIdsErr" /\ r.err))
                /\ UNCHANGED pc
    /\ UNCHANGED <<chanLog, cmdVars, ctxVars, sources, rows, cfg, fn, keys, srvPolicies,
                   srvFaults, bulkCalls, policiesResp, policies, roleCounts, wg, resultChan,
                   closed, users, errs, result, resultNil, retErr, requests, printed,
                   slotWrites>>

\* The call of position i was made with the ctx of the caller.
CallCarriesCtx(i) ==
    \E r \in requests : r.op = PerKeyOp(fn) /\ r.pos = i /\ r.ctx = CallerCtx

\* The ctx of the caller is cancelled while the call of position i is in flight:
\* the HTTP client ends a request made with that ctx with the error of the ctx.
\* The worker handles it as it handles any error of the call.
WorkerCancelled(i) ==
    /\ pc = "collect"
    /\ wpc[i] = "calling"
    /\ ctxDone
    /\ CallCarriesCtx(i)
    /\ resp' = [resp EXCEPT ![i] = TransportError]
    /\ ctxErrs' = ctxErrs \cup {i}
    /\ IF fn = "getUsersByIds"
       THEN /\ pc' = "exited"
            /\ errLogged' = TRUE
            /\ UNCHANGED wpc
       ELSE /\ wpc' = [wpc EXCEPT ![i] = "replied"]
            /\ errLogged' = (errLogged \/ fn = "getUsersByIdsErr")
            /\ UNCHANGED pc
    /\ UNCHANGED <<chanLog, cmdVars, ctxDone, sources, rows, cfg, fn, keys, srvPolicies,
                   srvFaults, bulkCalls, policiesResp, policies, roleCounts, wg, resultChan,
                   closed, users, errs, result, resultNil, retErr, requests, printed,
                   slotWrites>>

\* The ctx of the caller is cancelled while the bulk request is in flight: the
\* request ends with the error of the ctx and the zero records are returned.
BulkCancelled ==
    /\ pc = "bulk"
    /\ ctxDone
    /\ policiesResp' = TransportError
    /\ result' = ZeroInfos(fn, keys)
    /\ pc' = "returned"
    /\ UNCHANGED <<chanLog, cmdVars, ctxVars, sources, rows, cfg, fn, keys, srvPolicies,
                   srvFaults, bulkCalls, policies, roleCounts, wpc, wg, resp, resultChan,
                   closed, users, errs, resultNil, retErr, requests, errLogged, printed,
                   slotWrites>>

\* The caller cancels the ctx, or its deadline passes, while the helper runs.
CancelCtx ==
    /\ ~ctxDone
    /\ pc \in {"start", "bulk", "collect"}
    /\ ctxDone' = TRUE
    /\ UNCHANGED <<chanLog, cmdVars, ctxErrs, sources, rows, cfg, fn, keys, srvPolicies,
                   srvFaults, pc, bulkCalls, policiesResp, policies, roleCounts, wpc, wg,
                   resp, resultChan, closed, users, errs, result, resultNil, retErr,
                   requests, errLogged, printed, slotWrites>>

\* Mutant of WorkerSend: the worker sends its result twice.
WorkerSendTwice(i) ==
    /\ pc = "collect"
    /\ wpc[i] = "replied"
    /\ ~closed
    /\ Len(resultChan) < Len(keys)
    /\ resultChan' = Append(Append(resultChan, WorkerMsg(fn, keys[i], i, resp[i])),
                            WorkerMsg(fn, keys[i], i, resp[i]))
    /\ wpc' = [wpc EXCEPT ![i] = "sent"]
    /\ chanLog' = [chanLog EXCEPT !.sent = @ + 2]
    /\ UNCHANGED <<cmdVars, ctxVars, sources, rows, cfg, fn, keys, srvPolicies, srvFaults,
                   pc, bulkCalls, policiesResp, policies, roleCounts, resp, wg, closed,
                   users, errs, result, resultNil, retErr, requests, errLogged, printed,
                   slotWrites>>

\* resultChan <- ... : blocks while the buffer (capacity len(keys)) is full.
WorkerSend(i) ==
    /\ pc = "collect"
    /\ wpc[i] = "replied"
    /\ ~closed
    /\ Len(resultChan) < Len(keys)
    /\ resultChan' = Append(resultChan, WorkerMsg(fn, keys[i], i, resp[i]))
    /\ wpc' = [wpc EXCEPT ![i] = "sent"]
    /\ chanLog' = [chanLog EXCEPT !.sent = @ + 1]
    /\ UNCHANGED <<cmdVars, ctxVars, sources, rows, cfg, fn, keys, srvPolicies, srvFaults,
                   pc, bulkCalls, policiesResp, policies, roleCounts, resp, wg, closed,
                   users, errs, result, resultNil, retErr, requests, errLogged, printed,
                   slotWrites>>

\* Mutant of WorkerDone: the worker ends without wg.Done().
WorkerDoneWithoutDone(i) ==
    /\ pc = "collect"
    /\ wpc[i] = "sent"
    /\ wpc' = [wpc EXCEPT ![i] = "done"]
    /\ UNCHANGED <<chanLog, cmdVars, ctxVars, sources, rows, cfg, fn, keys, srvPolicies,
                   srvFaults, pc, bulkCalls, policiesResp, policies, roleCounts, resp, wg,
                   resultChan, closed, users, errs, result, resultNil, retErr, requests,
                   errLogged, printed, slotWrites>>

\* defer wg.Done()
WorkerDone(i) ==
    /\ pc = "collect"
    /\ wpc[i] = "sent"
    /\ wpc' = [wpc EXCEPT ![i] = "done"]
    /\ wg' = wg - 1
    /\ UNCHANGED <<chanLog, cmdVars, ctxVars, sources, rows, cfg, fn, keys, srvPolicies,
                   srvFaults, pc, bulkCalls, policiesResp, policies, roleCounts, resp,
                   resultChan, closed, users, errs, result, resultNil, retErr, requests,
                   errLogged, printed, slotWrites>>

\* Mutant of Closer: the channel is closed without waiting for the workers.
CloserWithoutWait ==
    /\ pc = "collect"
    /\ ~closed
    /\ closed' = TRUE
    /\ chanLog' = [chanLog EXCEPT !.closes = @ + 1]
    /\ UNCHANGED <<cmdVars, ctxVars, sources, rows, cfg, fn, keys, srvPolicies, srvFaults,
                   pc, bulkCalls, policiesResp, policies, roleCounts, wpc, resp, wg,
                   resultChan, users, errs, result, resultNil, retErr, requests, errLogged,
                   printed, slotWrites>>

\* go func() { wg.Wait(); close(resultChan) }()
Closer ==
    /\ pc = "collect"
    /\ wg = 0
    /\ ~closed
    /\ closed' = TRUE
    /\ chanLog' = [chanLog EXCEPT !.closes = @ + 1]
    /\ UNCHANGED <<cmdVars, ctxVars, sources, rows, cfg, fn, keys, srvPolicies, srvFaults,
                   pc, bulkCalls, policiesResp, policies, roleCounts, wpc, resp, wg,
                   resultChan, users, errs, result, resultNil, retErr, requests, errLogged,
                   printed, slotWrites>>

\* getUsersByIds (common.go): users[result.index] = result.user
StoreUser(us, m) == [us EXCEPT ![m.index] = m.user]

\* getUsersByIds (part_001): an error is appended to errs and its slot is skipped.
StoreUserErr(st, m) ==
    IF m.err # Nil
    THEN [st EXCEPT !.errs = Append(@, Deref(m.err))]
    ELSE [st EXCEPT !.users = StoreUser(@, m)]

\* The body of `for result := range resultChan` on the locals
\* st = [roleCounts, users, errs] for the received value m.
CollectStep(f, st, m) ==
    CASE f \in InfoFns -> [st EXCEPT !.roleCounts = ApplyInfoMsg(f, @, m)]
      [] f = "getUsersByIds" -> [st EXCEPT !.users = StoreUser(@, m)]
      [] OTHER -> StoreUserErr(st, m)

\* The received value m makes the loop body assign to a slot (part_001 skips the
\* assignment for an error).
AssignsSlot(f, m) == f # "getUsersByIdsErr" \/ m.err = Nil

\* The slot the loop body assigns to for m: roleCounts[m.role] or users[m.index].
SlotOf(f, m) == IF f \in InfoFns THEN m.role ELSE m.index

\* One iteration of the range loop: receive the oldest value and apply the body.
Collect ==
    /\ pc = "collect"
    /\ resultChan # <<>>
    /\ resultChan' = Tail(resultChan)
    /\ LET st == CollectStep(fn, [roleCounts |-> roleCounts, users |-> users,
                                  errs |-> errs], Head(resultChan))
       IN  /\ roleCounts' = st.roleCounts
           /\ users' = st.users
           /\ errs' = st.errs
    /\ slotWrites' = IF AssignsSlot(fn, Head(resultChan))
                     THEN [slotWrites EXCEPT ![SlotOf(fn, Head(resultChan))] = @ + 1]
                     ELSE slotWrites
    /\ chanLog' = [chanLog EXCEPT !.received = @ + 1]
    /\ UNCHANGED <<cmdVars, ctxVars, sources, rows, cfg, fn, keys, srvPolicies, srvFaults,
                   pc, bulkCalls, policiesResp, policies, wpc, resp, wg, closed, result,
                   resultNil, retErr, requests, errLogged, printed>>

\* The range loop ends (channel closed and drained) and the function returns.
Finish ==
    /\ pc = "collect"
    /\ resultChan = <<>>
    /\ closed
    /\ CASE fn \in InfoFns ->
                /\ result' = ToSlice(keys, roleCounts)
                /\ pc' = "returned"
                /\ UNCHANGED <<resultNil, retErr>>
         [] fn = "getUsersByIds" ->
                IF Len(errs) > 0
                THEN /\ pc' = "exited"
                     /\ UNCHANGED <<result, resultNil, retErr>>
                ELSE /\ result' = users
                     /\ pc' = "returned"
                     /\ UNCHANGED <<resultNil, retErr>>
         [] OTHER ->
                IF Len(errs) > 0
                THEN /\ resultNil' = TRUE
                     /\ retErr' = Ref(FetchError(errs))
                     /\ pc' = "returned"
                     /\ UNCHANGED result
                ELSE /\ result' = users
                     /\ pc' = "returned"
                     /\ UNCHANGED <<resultNil, retErr>>
    /\ errLogged' = (errLogged \/ (fn = "getUsersByIds" /\ Len(errs) > 0))
    /\ UNCHANGED <<chanLog, cmdVars, ctxVars, sources, rows, cfg, fn, keys, srvPolicies,
                   srvFaults, bulkCalls, policiesResp, policies, roleCounts, wpc, resp, wg,
                   resultChan, closed, users, errs, requests, printed, slotWrites>>

\* The calling command renders what the function returned: printRoles(roleInfo),
\* printResourceGroups(rgInfo), printUsers(users).  rbacRoleGetCmd does so whatever
\* error getUsersByIds returned with the users.
\* printUsers reads user.Id of every entry: a nil entry is a nil dereference.
PrintUsersPanics(f, us) == f \in UsersFns /\ \E i \in DOMAIN us : us[i] = Nil

PrintTable ==
    /\ pc = "returned"
    /\ ~printed
    /\ IF PrintUsersPanics(fn, result)
       THEN /\ pc' = "panicked"
            /\ UNCHANGED printed
       ELSE /\ printed' = TRUE
            /\ UNCHANGED pc
    /\ UNCHANGED <<chanLog, cmdVars, ctxVars, sources, rows, cfg, fn, keys, srvPolicies,
                   srvFaults, bulkCalls, policiesResp, policies, roleCounts, wpc, resp,
                   wg, resultChan, closed, users, errs, result, resultNil, retErr, requests,
                   errLogged, slotWrites>>

Next ==
    \/ IssueBulk
    \/ BulkReturns
    \/ StartUsers
    \/ \E i \in 1..Len(keys) : WorkerCall(i)
    \/ \E i \in 1..Len(keys) : WorkerReturns(i)
    \/ \E i \in 1..Len(keys) : WorkerSend(i)
    \/ \E i \in 1..Len(keys) : WorkerDone(i)
    \/ Closer
    \/ Collect
    \/ Finish
    \/ PrintTable

Spec == Init /\ [][Next]_vars

-----------------------------------------------------------------------------
(* The commands: configuration loading, the client, the config command *)

\* rootCmd.PersistentPreRun: config.Init(v)
PersistentPreRun ==
    /\ pc = "preRun"
    /\ cfg' = ConfigInit(sources)
    /\ pc' = "command"
    /\ UNCHANGED <<chanLog, cmdVars, ctxVars, fn, keys, srvPolicies, srvFaults, bulkCalls,
                   policiesResp, policies, roleCounts, wpc, resp, wg, resultChan, closed,
                   users, errs, result, resultNil, retErr, printed, slotWrites, sources,
                   requests, errLogged, rows>>

\* The listing request of the command that calls f.
ListOp(f) ==
    CASE f = "getRoleInfo" -> "GetRbacListRoles"
      [] f = "getResourceGroupInfo" -> "GetRbacListResourceGroups"
      [] OTHER -> "GetRbacRole"

\* A command of the rbac group: c := getClient(), the request whose answer is the
\* list of keys, then the batch helper.
CommandListing ==
    /\ pc = "command"
    /\ fn \in InfoFns \cup UsersFns
    /\ IF ClientConfigured(cfg)
       THEN /\ requests' = requests \cup {Request(ListOp(fn), 0, "", cfg)}
            /\ pc' = "start"
            /\ UNCHANGED errLogged
       ELSE /\ pc' = "exited"
            /\ errLogged' = TRUE
            /\ UNCHANGED requests
    /\ UNCHANGED <<chanLog, cmdVars, ctxVars, fn, keys, srvPolicies, srvFaults, bulkCalls,
                   policiesResp, policies, roleCounts, wpc, resp, wg, resultChan, closed,
                   users, errs, result, resultNil, retErr, printed, slotWrites, sources,
                   cfg, rows>>

\* One row of the table: fmt.Sprintf(" %v ", ...) of the field path and of the value.
Row(path, value) == <<" " \o path \o " ", " " \o value \o " ">>

\* parseValues on a BasicAuth reached through the Auth field: one row per field.
ParseValuesAuth(auth) ==
    <<Row("Auth.Username", auth.Username), Row("Auth.Password", auth.Password)>>

\* iterateStruct(config.Cfg): the rows of the fields, in declaration order.
IterateStruct(c) == <<Row("APIServerURL", c.APIServerURL)>> \o ParseValuesAuth(Deref(c.Auth))

\* parseValues panics on a nil Auth: the Elem of a nil interface is the zero
\* Value, and Interface() of the zero Value panics.
ParseValuesPanics(c) == c.Auth = Nil

\* configCmd: newModel() builds the rows of the table from config.Cfg.
ConfigCmd ==
    /\ pc = "command"
    /\ fn = "config"
    /\ IF ParseValuesPanics(cfg)
       THEN /\ pc' = "exited"
            /\ UNCHANGED <<rows, printed>>
       ELSE /\ rows' = IterateStruct(cfg)
            /\ printed' = TRUE
            /\ pc' = "returned"
    /\ UNCHANGED <<chanLog, cmdVars, ctxVars, fn, keys, srvPolicies, srvFaults, bulkCalls,
                   policiesResp, policies, roleCounts, wpc, resp, wg, resultChan, closed,
                   users, errs, result, resultNil, retErr, slotWrites, sources, requests,
                   errLogged, cfg>>

\* Values the sources hold in the runs explored.
Val(source, key) == key \o "@" \o source

Settings(source) == {[k \in D |-> Val(source, k)] : D \in SUBSET ConfigKeys}

\* What a path may hold: no file, or a file with some of the settings.
FileAt(path) == {Nil} \cup {Ref(m) : m \in Settings(path)}

FileSets ==
    {[p \in Range(SearchPaths) \cup {CustomFile} |->
         CASE p = SearchPaths[1] -> a
           [] p = SearchPaths[2] -> b
           [] p = SearchPaths[3] -> c
           [] OTHER -> Ref([k \in ConfigKeys |-> Val(CustomFile, k)])] :
        a \in FileAt(SearchPaths[1]), b \in FileAt(SearchPaths[2]),
        c \in FileAt(SearchPaths[3])}

AllSources ==
    {Sources(f, e, c, fs) : f \in Settings("flag"), e \in Settings("env"),
                            c \in {"", CustomFile}, fs \in FileSets}

\* Runs of the config command over all sources.
InitConfigCmd ==
    /\ fn = "config"
    /\ keys = <<>>
    /\ srvPolicies = <<>>
    /\ srvFaults = FALSE
    /\ pc = "preRun"
    /\ sources \in AllSources
    /\ cfg = ZeroCfg
    /\ InitNoCommand
    /\ InitCtx
    /\ InitLocals

NextConfigCmd ==
    \/ PersistentPreRun
    \/ ConfigCmd

SpecConfigCmd == InitConfigCmd /\ [][NextConfigCmd]_vars

\* Runs of the rbac commands: the credentials come from the environment or are
\* missing, the URL is the default or is emptied with --api-url "".
CliSources ==
    {Sources(f, [k \in D |-> EnvCredentials[k]], "", NoFiles) :
        f \in {<<>>, [k \in {"api_server_url"} |-> ""]},
        D \in SUBSET DOMAIN EnvCredentials}

InitCli ==
    /\ fn \in InfoFns \cup UsersFns
    /\ keys \in SeqsUpTo(KeySet(fn), MaxKeys)
    /\ srvPolicies \in PolicyLists
    /\ srvFaults = FALSE
    /\ pc = "preRun"
    /\ sources \in CliSources
    /\ cfg = ZeroCfg
    /\ InitNoCommand
    /\ InitCtx
    /\ InitLocals

NextCli ==
    \/ PersistentPreRun
    \/ CommandListing
    \/ IssueBulk
    \/ BulkReturns
    \/ StartUsers
    \/ \E i \in 1..Len(keys) : WorkerCall(i)
    \/ \E i \in 1..Len(keys) : WorkerReturns(i)
    \/ \E i \in 1..Len(keys) : WorkerSend(i)
    \/ \E i \in 1..Len(keys) : WorkerDone(i)
    \/ Closer
    \/ Collect
    \/ Finish
    \/ PrintTable

SpecCli == InitCli /\ [][NextCli]_vars

-----------------------------------------------------------------------------
(* Runs of the helpers with a ctx that may be cancelled *)

InitCancel ==
    /\ fn \in InfoFns \cup UsersFns
    /\ keys \in SeqsUpTo(KeySet(fn), MaxKeys)
    /\ srvPolicies \in PolicyLists
    /\ srvFaults = FALSE
    /\ InitRun

NextCancel ==
    \/ CancelCtx
    \/ BulkCancelled
    \/ \E i \in 1..Len(keys) : WorkerCancelled(i)
    \/ IssueBulk
    \/ BulkReturns
    \/ StartUsers
    \/ \E i \in 1..Len(keys) : WorkerCall(i)
    \/ \E i \in 1..Len(keys) : WorkerReturns(i)
    \/ \E i \in 1..Len(keys) : WorkerSend(i)
    \/ \E i \in 1..Len(keys) : WorkerDone(i)
    \/ Closer
    \/ Collect
    \/ Finish
    \/ PrintTable

SpecCancel == InitCancel /\ [][NextCancel]_vars

-----------------------------------------------------------------------------
(* Runs whose input holds an empty key *)

InitMalformed ==
    /\ fn \in InfoFns \cup UsersFns
    /\ keys \in {ks \in SeqsUpTo(KeySet(fn) \cup {""}, MaxKeys) : "" \in Range(ks)}
    /\ srvPolicies \in PolicyLists
    /\ srvFaults = FALSE
    /\ InitRun

SpecMalformed == InitMalformed /\ [][Next]_vars

-----------------------------------------------------------------------------
(* Scenario A of the specification: three roles, three policies, no failures *)

ScenarioAKeys == <<"admin", "editor", "viewer">>

ScenarioAPolicies ==
    <<RBACPolicy("admin", "*", "GET"), RBACPolicy("admin", "*", "POST"),
      RBACPolicy("editor", "rg1", "GET")>>

InitScenarioA ==
    /\ fn = "getRoleInfo"
    /\ keys = ScenarioAKeys
    /\ srvPolicies = ScenarioAPolicies
    /\ srvFaults = FALSE
    /\ InitRun

NextInfo ==
    \/ IssueBulk
    \/ BulkReturns
    \/ \E i \in 1..Len(keys) : WorkerCall(i)
    \/ \E i \in 1..Len(keys) : WorkerReturns(i)
    \/ \E i \in 1..Len(keys) : WorkerSend(i)
    \/ \E i \in 1..Len(keys) : WorkerDone(i)
    \/ Closer
    \/ Collect
    \/ Finish
    \/ PrintTable

SpecScenarioA == InitScenarioA /\ [][NextInfo]_vars

-----------------------------------------------------------------------------
(* Fair runs of the helpers that return: every goroutine that can take a step
   eventually takes one, and every remote call eventually returns *)

ReturningFns == InfoFns \cup {"getUsersByIdsErr"}

InitLive ==
    /\ fn \in ReturningFns
    /\ keys \in SeqsUpTo(KeySet(fn), MaxKeys)
    /\ srvPolicies = ScenarioAPolicies
    /\ srvFaults = TRUE
    /\ InitRun

SpecLive == InitLive /\ [][Next]_vars /\ WF_vars(Next)

-----------------------------------------------------------------------------
(* Vocabulary of the properties *)

\* The function has returned through its fan-out path (not the early returns).
ReturnedAfterFanOut == pc = "returned" /\ \A i \in 1..Len(keys) : wpc[i] = "done"

\* The bulk request was answered with a failure.
BulkFetchFailed == fn \in InfoFns /\ pc \notin {"start", "bulk"} /\ BulkFailed(policiesResp)

\* The per-key count the reply r stands for: the size of its list, 0 on failure.
CountOfReply(r) == IF ~r.err /\ r.status = 200 THEN Len(Deref(r.JSON200)) ELSE 0

\* Positions whose per-key request has been sent.
CallsIssued == {i \in 1..Len(keys) : wpc[i] \notin {"idle", "ready"}}

\* The locals after the range loop had it received the results in input order.
RECURSIVE CollectInOrder(_, _)
CollectInOrder(st, i) ==
    IF i > Len(keys) THEN st
    ELSE CollectInOrder(CollectStep(fn, st, WorkerMsg(fn, keys[i], i, resp[i])), i + 1)

InOrderLocals ==
    CollectInOrder([roleCounts |-> CountPolicies(fn, InitCounts(fn, keys),
                                                 IF policies = Nil THEN <<>> ELSE Deref(policies)),
                    users |-> NilUsers(keys), errs |-> <<>>], 1)

\* The slice returned had the results been received in input order.
InOrderResult ==
    CASE fn \in InfoFns -> ToSlice(keys, InOrderLocals.roleCounts)
      [] Len(InOrderLocals.errs) > 0 -> <<>>
      [] OTHER -> InOrderLocals.users

-----------------------------------------------------------------------------
(* C1..C10 *)

\* C1: getRoleInfo and getResourceGroupInfo return exactly len(keys) records and
\* the i-th record carries the i-th key, whatever the remote calls answered.
C1_RecordsMatchKeys ==
    (pc = "returned" /\ fn \in InfoFns) =>
        /\ Len(result) = Len(keys)
        /\ \A i \in 1..Len(keys) : KeyOf(result[i]) = keys[i]

\* C1 witness: a fan-out run over a duplicated key, with a failed per-key call, has returned.
C1_Witness ==
    /\ fn \in InfoFns
    /\ ReturnedAfterFanOut
    /\ Len(keys) = 2
    /\ keys[1] = keys[2]
    /\ \E i \in 1..Len(keys) : resp[i].err

\* C2 (as claimed): with the per-position replies fixed, the returned sequence is the
\* one obtained when the results are received in input order, for every order in
\* which they are actually received.
C2_OrderIndependent ==
    ReturnedAfterFanOut => result = InOrderResult

\* C3 (as claimed): when a key occurs at two positions, each of the two records
\* carries the count of the call started for its own position.
C3_DuplicatesIndependent ==
    (fn \in InfoFns /\ ReturnedAfterFanOut) =>
        \A i, j \in 1..Len(keys) :
            (i # j /\ keys[i] = keys[j]) =>
                /\ PerKeyCountOf(result[i]) = CountOfReply(resp[i])
                /\ PerKeyCountOf(result[j]) = CountOfReply(resp[j])

\* C4 (as claimed): after a failed bulk fetch every policy count is 0, while the
\* per-key calls are still issued and the per-key counts are those they returned.
C4_BulkFailureKeepsPerKey ==
    (BulkFetchFailed /\ pc = "returned") =>
        \A i \in 1..Len(keys) :
            /\ result[i].PolicyCount = 0
            /\ i \in CallsIssued
            /\ PerKeyCountOf(result[i]) = CountOfReply(resp[i])

\* C4 (amended): after a failed bulk fetch the function returns at once, one record
\* per key in input order with policy count 0 and per-key count 0, and no per-key
\* call is ever issued.
C4_BulkFailureZeroesAll ==
    BulkFetchFailed =>
        /\ pc = "returned"
        /\ CallsIssued = {}
        /\ Len(result) = Len(keys)
        /\ \A i \in 1..Len(keys) :
            /\ KeyOf(result[i]) = keys[i]
            /\ result[i].PolicyCount = 0
            /\ PerKeyCountOf(result[i]) = 0

\* C4 witness: the bulk fetch was answered 500 and the function has returned two records.
C4_Witness ==
    /\ BulkFetchFailed
    /\ policiesResp.status = 500
    /\ pc = "returned"
    /\ Len(result) = 2

\* A per-key reply that is a failure other than an authentication failure.
NonAuthFailure(r) == r.err \/ r.status \in {404, 500}

Succeeded(r) == ~r.err /\ r.status = 200

\* Exactly the call of position f failed, without an authentication failure.
OnlyFailure(f) ==
    /\ NonAuthFailure(resp[f])
    /\ \A i \in 1..Len(keys) : i # f => Succeeded(resp[i])

\* The error report the caller gets: one line per failure.
ErrorReport == IF retErr = Nil THEN <<>> ELSE Deref(retErr).lines

NamesKey(line, key) == "key" \in DOMAIN line.err /\ line.err.key = key

\* The record of position i had its call succeeded.
UnfailedRecord(i) ==
    IF fn \in InfoFns
    THEN NewInfo(fn, keys[i], Len(PerKeyData(fn, keys[i])), result[i].PolicyCount)
    ELSE Ref(PerKeyData(fn, keys[i]))

ZeroedRecord(i) ==
    IF fn \in InfoFns THEN PerKeyCountOf(result[i]) = 0 ELSE result[i] = Nil

\* C5 (as claimed): when exactly one per-key fetch fails with a non-auth error the
\* batch still returns N records, only the failed one zeroed, and the error report
\* has exactly one entry, naming the failed key.
C5_SingleFailureReported ==
    \A f \in 1..Len(keys) :
        OnlyFailure(f) =>
            /\ pc # "exited"
            /\ pc = "returned" =>
                /\ ~resultNil
                /\ Len(result) = Len(keys)
                /\ ZeroedRecord(f)
                /\ \A i \in 1..Len(keys) : i # f => result[i] = UnfailedRecord(i)
                /\ Len(ErrorReport) = 1
                /\ NamesKey(ErrorReport[1], keys[f])

\* C6 (as claimed): in getUsersByIds a failing per-key call never ends the process
\* and never makes the call return a nil or incomplete sequence.
C6_FailureNeverAborts ==
    fn \in UsersFns =>
        /\ pc # "exited"
        /\ pc = "returned" =>
            /\ ~resultNil
            /\ Len(result) = Len(keys)

\* C6 (amended): a failing per-key call aborts the batch.  In getUsersByIds of
\* common.go a transport error or a non-2xx status ends the process.  In
\* getUsersByIds of part_001 a transport error or a status other than 200 makes the
\* call return a nil sequence and an error.  A sequence is returned only when no
\* lookup failed, and then has one entry per id, in input order.
C6_FailureAbortsBatch ==
    /\ fn = "getUsersByIds" =>
        /\ (\E i \in 1..Len(keys) : resp[i].err \/ resp[i].status \in {401, 404, 500})
                => pc = "exited"
        /\ pc = "returned" =>
            /\ ~resultNil
            /\ Len(result) = Len(keys)
            /\ \A i \in 1..Len(keys) : result[i] = resp[i].JSON200
    /\ fn = "getUsersByIdsErr" =>
        /\ pc # "exited"
        /\ pc = "returned" =>
            IF \E i \in 1..Len(keys) : ~Succeeded(resp[i])
            THEN resultNil /\ result = <<>> /\ retErr # Nil
            ELSE /\ ~resultNil
                 /\ retErr = Nil
                 /\ Len(result) = Len(keys)
                 /\ \A i \in 1..Len(keys) : result[i] = resp[i].JSON200

\* C6 witness: of two lookups one succeeded and the other was answered 404, and
\* getUsersByIds of common.go has ended the process.
C6_Witness ==
    /\ fn = "getUsersByIds"
    /\ pc = "exited"
    /\ Len(keys) = 2
    /\ \E i, j \in 1..Len(keys) : resp[i].status = 404 /\ wpc[j] = "done"

\* Number of policies of the received list whose discriminator is d.
Matching(d) ==
    Cardinality({j \in 1..Len(Deref(policies)) : Discriminator(fn, Deref(policies)[j]) = d})

\* C7 (as claimed): the policy count of a key is the number of policies whose
\* discriminator equals the key exactly, plus the number whose discriminator is "*".
C7_PolicyCountWithWildcard ==
    (fn \in InfoFns /\ ReturnedAfterFanOut) =>
        \A i \in 1..Len(keys) : result[i].PolicyCount = Matching(keys[i]) + Matching("*")

\* C8: Scenario A returns (admin, 2 users, 2 policies), (editor, 1, 1), (viewer, 0, 0),
\* in that order, under every interleaving.
C8_ScenarioA ==
    pc = "returned" =>
        result = <<RoleInfo("admin", 2, 2), RoleInfo("editor", 1, 1), RoleInfo("viewer", 0, 0)>>

\* C8 witness: Scenario A has returned through its fan-out.
C8_Witness ==
    /\ keys = ScenarioAKeys
    /\ policies = Ref(ScenarioAPolicies)
    /\ ReturnedAfterFanOut
    /\ Len(result) = 3

\* C9: the policy listing is requested exactly once per run, whatever the number of
\* keys, and the received list is never changed afterwards.
C9_BulkFetchedOnce ==
    /\ []((fn \in InfoFns /\ pc # "start") => bulkCalls = 1)
    /\ [][policies # Nil => policies' = policies]_vars

\* C9 witness: a run over two keys has returned with a non-empty policy list.
C9_Witness ==
    /\ fn \in InfoFns
    /\ ReturnedAfterFanOut
    /\ Len(keys) = 2
    /\ bulkCalls = 1
    /\ policies # Nil
    /\ Deref(policies) # <<>>

\* C10 (as claimed): with no keys the function returns an empty sequence at once
\* and issues no remote call, neither the bulk fetch nor a per-key fetch.
C10_EmptyKeysNoCalls ==
    Len(keys) = 0 =>
        /\ bulkCalls = 0
        /\ CallsIssued = {}
        /\ pc # "start" => (pc = "returned" /\ result = <<>>)

\* A worker that was started and has not finished: its request is unsent or
\* unanswered, or its result is not yet on the channel, or wg.Done() is not yet run.
Running(i) == wpc[i] \notin {"idle", "done"}

\* C11: the function returns only after every worker it started has finished and
\* every result sent has been received: once it has returned no worker is running
\* and the channel is closed and empty.
C11_ReturnsAfterAllTasks ==
    pc = "returned" =>
        /\ \A i \in 1..Len(keys) : ~Running(i)
        /\ resultChan = <<>>
        /\ (\E i \in 1..Len(keys) : wpc[i] # "idle") =>
                /\ closed
                /\ wg = 0
                /\ \A i \in 1..Len(keys) : wpc[i] = "done" /\ resp[i] # NoReply

\* C11 witness: a run over two keys has returned after one call succeeded and the
\* other failed.
C11_Witness ==
    /\ pc = "returned"
    /\ Len(keys) = 2
    /\ closed
    /\ \E i, j \in 1..Len(keys) : Succeeded(resp[i]) /\ NonAuthFailure(resp[j])

\* A reply that reports an authentication failure.
AuthFailure(r) == ~r.err /\ r.status \in {401, 403}

\* An authentication failure has been received, by the bulk fetch or by a worker.
AuthFailureSeen ==
    \/ fn \in InfoFns /\ AuthFailure(policiesResp)
    \/ \E i \in 1..Len(keys) : AuthFailure(resp[i])

\* C12 (as claimed): an authentication failure on the bulk call or on a per-key
\* call ends the batch at once, without waiting for the other workers, and the
\* batch never returns a normal result after it.
C12_AuthFailureFatal ==
    AuthFailureSeen =>
        \/ pc = "exited"
        \/ pc = "returned" /\ retErr # Nil

\* A key the service could hold an entry under.
ValidKey(key) == key # ""

\* C13 (as claimed): when some key of the input is malformed the batch is rejected
\* before anything is sent: neither the bulk request nor a per-key request is
\* ever issued.
C13_MalformedKeyRejected ==
    (\E i \in 1..Len(keys) : ~ValidKey(keys[i])) =>
        /\ bulkCalls = 0
        /\ CallsIssued = {}
        /\ requests = {}

\* The per-key call of position i has been answered with a failure.
Failed(i) == wpc[i] \in {"replied", "sent", "done"} /\ ~Succeeded(resp[i])

\* The failed positions, in input order.
FailedPositions == SelectSeq([i \in 1..Len(keys) |-> i], Failed)

\* C14 (as claimed): the error report a batch returns has one entry per failed
\* per-key call, in the input order of the failed keys, each entry naming its key;
\* so it is the same for every order in which the results are received.
C14_ReportDeterministic ==
    pc = "returned" =>
        /\ Len(ErrorReport) = Len(FailedPositions)
        /\ \A k \in 1..Len(ErrorReport) :
                /\ k <= Len(FailedPositions)
                /\ ErrorReport[k].err =
                       Deref(WorkerMsg(fn, keys[FailedPositions[k]], FailedPositions[k],
                                      resp[FailedPositions[k]]).err)
                /\ NamesKey(ErrorReport[k], keys[FailedPositions[k]])

\* C15 (as claimed): when a per-key call failed and the command has printed its
\* table, an error was reported: logged by the function, or returned to the
\* command and logged by it.
C15_FailureReported ==
    (printed /\ \E i \in 1..Len(keys) : Failed(i)) => errLogged

\* C16: a request is sent only with a non-empty server URL and an auth provider
\* configured, every request sent carries the Authorization header that the
\* provider built from the configured credentials gives, and a command whose
\* client is not configured ends at getClient without having sent anything.
C16_RequestsAuthorized ==
    /\ \A r \in requests :
            /\ cfg.APIServerURL # ""
            /\ cfg.Auth # Nil
            /\ r.server = cfg.APIServerURL
            /\ r.Authorization = GetAuthHeader(Deref(cfg.Auth))
            /\ r.Authorization =
                   <<"Basic ", Base64(GetString(sources, "auth.username") \o ":" \o
                                      GetString(sources, "auth.password"))>>
    /\ (pc \notin {"preRun", "command"} /\ (cfg.APIServerURL = "" \/ cfg.Auth = Nil)) =>
            /\ pc = "exited"
            /\ errLogged
            /\ requests = {}

\* C16 witness: a command configured from the environment has sent its listing
\* request, the bulk request and two per-key requests, and has returned.
C16_Witness ==
    /\ pc = "returned"
    /\ fn \in InfoFns
    /\ sources.env = EnvCredentials
    /\ Len(keys) = 2
    /\ \E r \in requests : r.op = ListOp(fn)
    /\ \A i \in 1..Len(keys) : Request(PerKeyOp(fn), i, keys[i], cfg) \in requests

\* The value the configuration ends up with for key.
Effective(c, key) ==
    CASE key = "api_server_url" -> c.APIServerURL
      [] key = "auth.username" -> IF c.Auth = Nil THEN "" ELSE Deref(c.Auth).Username
      [] OTHER -> IF c.Auth = Nil THEN "" ELSE Deref(c.Auth).Password

\* The sources in the documented order of precedence, as settings: flags,
\* environment, the file of each search path, defaults.
Precedence(src) ==
    <<src.flags, src.env>> \o
    [n \in 1..Len(SearchPaths) |->
        IF src.files[SearchPaths[n]] = Nil THEN <<>> ELSE Deref(src.files[SearchPaths[n]])] \o
    <<Defaults>>

\* The value of the first source in the order of precedence that sets key.
RECURSIVE FirstSetting(_, _, _)
FirstSetting(order, key, n) ==
    IF n > Len(order) THEN ""
    ELSE IF key \in DOMAIN order[n] THEN order[n][key]
    ELSE FirstSetting(order, key, n + 1)

\* C17 (as claimed): without --config, each of the three settings has after
\* config.Init the value of the highest source that sets it, in the order flag,
\* environment, ./cli.yml, $HOME/.enclave/cli.yml, /etc/enclave/cli.yml, default.
C17_HighestSourceWins ==
    (pc # "preRun" /\ sources.cfgFile = "") =>
        \A key \in ConfigKeys :
            Effective(cfg, key) = FirstSetting(Precedence(sources), key, 1)

\* The configuration c with another password.
WithPassword(c, password) ==
    Config(c.APIServerURL, Ref(BasicAuth(Deref(c.Auth).Username, password)))

\* C18 (as claimed): the rows the config command builds do not depend on the
\* password: a configuration that differs only in the password gives the same rows.
C18_PasswordHidden ==
    (fn = "config" /\ pc = "returned") =>
        \A password \in {"hunter2", "secret"} :
            IterateStruct(WithPassword(cfg, password)) = rows

\* C19 (as claimed): the per-key calls do not wait for the bulk reply: while the
\* bulk request is unanswered every worker has sent its request or can send it.
C19_PerKeyNotBlockedOnBulk ==
    (fn \in InfoFns /\ pc = "bulk") =>
        \A i \in 1..Len(keys) : i \in CallsIssued \/ ENABLED WorkerCall(i)

\* C19 (amended): in getRoleInfo and getResourceGroupInfo the bulk request is
\* answered before any worker is started: a per-key request is sent only after
\* the policy list was received, and while the bulk request is unanswered no
\* per-key request can be sent.
C19_PerKeyAfterBulkReply ==
    fn \in InfoFns =>
        /\ CallsIssued # {} =>
                /\ pc \notin {"start", "bulk"}
                /\ ~BulkFailed(policiesResp)
                /\ policies # Nil
        /\ pc = "bulk" => \A i \in 1..Len(keys) : ~ENABLED WorkerCall(i)

\* C19 witness: the policy list has been received, one per-key request is in
\* flight and the other worker has not sent its request yet.
C19_Witness ==
    /\ fn \in InfoFns
    /\ pc = "collect"
    /\ policies # Nil
    /\ \E i, j \in 1..Len(keys) : wpc[i] = "calling" /\ wpc[j] = "ready"

\* C20 (as claimed): no slot of the output is assigned more than once during a
\* batch, duplicate keys included, and once the batch has returned its results
\* every slot has been assigned exactly once.
C20_SlotWrittenOnce ==
    /\ \A s \in DOMAIN slotWrites : slotWrites[s] <= 1
    /\ (ReturnedAfterFanOut /\ ~resultNil) => \A s \in DOMAIN slotWrites : slotWrites[s] = 1

\* C26 (as claimed): the ctx of the caller is not handed to the per-key calls, and
\* its cancellation ends none of them.
C26_CtxNotHandedOn ==
    /\ \A r \in requests : r.pos > 0 => r.ctx # CallerCtx
    /\ ctxErrs = {}

\* C26 (amended): every request of a helper, the per-key ones included, is made
\* with the ctx of the caller; once that ctx is cancelled every per-key call in
\* flight can be ended by it, and a call ended so is handled as a failed call.
C26_CtxHandedOn ==
    /\ \A r \in requests : r.ctx = CallerCtx
    /\ \A i \in 1..Len(keys) :
            /\ (pc = "collect" /\ wpc[i] = "calling" /\ ctxDone) => ENABLED WorkerCancelled(i)
            /\ i \in ctxErrs => (ctxDone /\ resp[i] = TransportError)
    /\ (fn \in InfoFns /\ pc = "returned" /\ policies # Nil) =>
            \A i \in ctxErrs :
                \/ PerKeyCountOf(result[i]) = 0
                \/ \E j \in 1..Len(keys) : j # i /\ keys[j] = keys[i]

\* C26 witness: the ctx was cancelled while the per-key calls of two keys were in
\* flight, one was ended by it, and the helper has returned.
C26_Witness ==
    /\ fn \in InfoFns
    /\ pc = "returned"
    /\ Len(keys) = 2
    /\ ctxDone
    /\ Cardinality(ctxErrs) = 1

\* C27: when every remote call returns and every goroutine that can run does, an
\* invocation of getRoleInfo, getResourceGroupInfo or getUsersByIds of part_001
\* returns, whatever the number of keys: no worker stays blocked on its send, the
\* channel gets closed and the range loop ends.
C27_EventuallyReturns ==
    (fn \in ReturningFns) =>
        <>(pc = "returned" /\ \A i \in 1..Len(keys) : wpc[i] \in {"idle", "done"})

\* C27 witness: a run over the largest input has returned after its fan-out, one
\* call having failed.
C27_Witness ==
    /\ fn \in ReturningFns
    /\ Len(keys) = MaxKeys
    /\ ReturnedAfterFanOut
    /\ closed
    /\ \E i \in 1..Len(keys) : resp[i].err

\* Workers that have sent their result.
Senders == {i \in 1..Len(keys) : wpc[i] \in {"sent", "done"}}

\* C28: the channel is closed at most once, and only after all N workers have
\* sent; each worker sends one result; at most N results are buffered; and the
\* range loop has received N results when it finds the channel closed and empty.
C28_ChannelDiscipline ==
    /\ chanLog.closes = (IF closed THEN 1 ELSE 0)
    /\ closed => /\ chanLog.sent = Len(keys)
                 /\ \A i \in 1..Len(keys) : wpc[i] = "done"
    /\ chanLog.sent = Cardinality(Senders)
    /\ Len(resultChan) <= Len(keys)
    /\ Len(resultChan) = chanLog.sent - chanLog.received
    /\ (pc = "collect" /\ closed /\ resultChan = <<>>) => chanLog.received = Len(keys)
    /\ (ReturnedAfterFanOut /\ Len(keys) > 0) =>
            (closed /\ chanLog.received = Len(keys))

\* C28 witness: the channel is closed with both results still buffered.
C28_Witness ==
    /\ closed
    /\ Len(keys) = 2
    /\ Len(resultChan) = 2
    /\ chanLog.sent = 2

\* C29 (as claimed): when getUsersByIds of common.go returns for one id or more,
\* every entry is the record of its id and none is nil, whatever 2xx status the
\* lookups were answered with; so printUsers meets no nil entry.
C29_NoNilUser ==
    /\ (fn = "getUsersByIds" /\ pc = "returned" /\ Len(keys) >= 1) =>
            \A i \in 1..Len(keys) :
                result[i] # Nil /\ result[i] = Ref(UserRecord(keys[i]))
    /\ fn = "getUsersByIds" => pc # "panicked"

\* Lookups that did not succeed.
FailedLookups == {i \in 1..Len(keys) : ~Succeeded(resp[i])}

\* C30: getUsersByIds of part_001 returns only when all N lookups have completed;
\* it returns the users (non-nil, one record per id, in input order) and a nil
\* error exactly when all lookups succeeded, and otherwise a nil sequence and one
\* error that states the number of failed lookups.
C30_AllOrNothing ==
    (fn = "getUsersByIdsErr" /\ pc \in {"returned", "panicked"}) =>
        /\ \A i \in 1..Len(keys) : wpc[i] = "done" /\ resp[i] # NoReply
        /\ IF FailedLookups = {}
           THEN /\ ~resultNil
                /\ retErr = Nil
                /\ Len(result) = Len(keys)
                /\ \A i \in 1..Len(keys) : result[i] = Ref(UserRecord(keys[i]))
           ELSE /\ resultNil
                /\ result = <<>>
                /\ retErr # Nil
                /\ Deref(retErr).count = Cardinality(FailedLookups)
                /\ Len(Deref(retErr).lines) = Cardinality(FailedLookups)

\* C30 witness: of two lookups the first failed and the second succeeded, and the
\* call has returned a nil sequence and an error counting one failure.
C30_Witness ==
    /\ fn = "getUsersByIdsErr"
    /\ pc = "returned"
    /\ Len(keys) = 2
    /\ ~Succeeded(resp[1])
    /\ Succeeded(resp[2])
    /\ resultNil
    /\ Deref(retErr).count = 1

-----------------------------------------------------------------------------
(* Fully qualified names: parseFQN, parseFQNWithIdentifier *)

\* A Go string is the sequence of its characters.
MaxFqnLen == 5

FqnAlphabet == {"a", "b", "/", ":"}

\* The positions of sep in s.
Cuts(s, sep) == {i \in 1..Len(s) : s[i] = sep}

\* The pieces of s between the cut positions, the cut characters left out.
SplitAt(s, cuts) ==
    LET k == Cardinality(cuts)
        nth(j) == CHOOSE i \in cuts : Cardinality({c \in cuts : c < i}) = j - 1
        lo(j) == IF j = 1 THEN 1 ELSE nth(j - 1) + 1
        hi(j) == IF j = k + 1 THEN Len(s) ELSE nth(j) - 1
    IN  [j \in 1..(k + 1) |-> SubSeq(s, lo(j), hi(j))]

\* strings.Split(s, sep) for a one-character sep.
Split(s, sep) == SplitAt(s, Cuts(s, sep))

\* Mutant of SplitN: the limit is ignored.
SplitNUnlimited(s, sep, n) == SplitAt(s, Cuts(s, sep))

\* strings.SplitN(s, sep, n) for n > 0: at most n pieces, the last one unsplit.
SplitN(s, sep, n) ==
    SplitAt(s, {i \in Cuts(s, sep) : Cardinality({c \in Cuts(s, sep) : c < i}) < n - 1})

\* client.FQN
FQN(source, author, name) == [Source |-> source, Author |-> author, Name |-> name]

ZeroFQN == FQN(<<>>, <<>>, <<>>)

\* parseFQN: (client.FQN, error)
parseFQN(fqn) ==
    LET parts == Split(fqn, "/")
    IN  IF Len(parts) # 3
        THEN [fqn |-> ZeroFQN, err |-> Ref("provided FQN invalid")]
        ELSE [fqn |-> FQN(parts[1], parts[2], parts[3]), err |-> Nil]

\* parseFQNWithIdentifier: (client.FQN, string, error)
parseFQNWithIdentifier(fqn) ==
    LET parts == Split(fqn, "/")
        invalid == [fqn |-> ZeroFQN, identifier |-> <<>>,
                    err |-> Ref("provided FQN with identifier invalid")]
    IN  IF Len(parts) # 3
        THEN invalid
        ELSE LET nameAndIdentifier == SplitN(parts[3], ":", 2)
             IN  IF Len(nameAndIdentifier) # 2
                 THEN invalid
                 ELSE [fqn |-> FQN(parts[1], parts[2], nameAndIdentifier[1]),
                       identifier |-> nameAndIdentifier[2],
                       err |-> Nil]

\* The strings the parsers are applied to.
FqnInputs == SeqsUpTo(FqnAlphabet, MaxFqnLen)

InitFqn ==
    /\ fn \in {"parseFQN", "parseFQNWithIdentifier"}
    /\ args \in {<<s>> : s \in FqnInputs}
    /\ pc = "start"
    /\ flagVals = NoFlags
    /\ cmdResp = <<>>
    /\ out = Nil
    /\ keys = <<>>
    /\ srvPolicies = <<>>
    /\ srvFaults = FALSE
    /\ sources = DefaultSources
    /\ cfg = ZeroCfg
    /\ rows = <<>>
    /\ InitCtx
    /\ InitLocals

CallParseFQN ==
    /\ pc = "start"
    /\ fn = "parseFQN"
    /\ out' = parseFQN(args[1])
    /\ pc' = "returned"
    /\ UNCHANGED <<chanLog, args, flagVals, cmdResp, ctxVars, sources, rows, cfg, fn, keys,
                   srvPolicies, srvFaults, bulkCalls, policiesResp, policies, roleCounts,
                   wpc, resp, wg, resultChan, closed, users, errs, result, resultNil,
                   retErr, requests, errLogged, printed, slotWrites>>

CallParseFQNWithIdentifier ==
    /\ pc = "start"
    /\ fn = "parseFQNWithIdentifier"
    /\ out' = parseFQNWithIdentifier(args[1])
    /\ pc' = "returned"
    /\ UNCHANGED <<chanLog, args, flagVals, cmdResp, ctxVars, sources, rows, cfg, fn, keys,
                   srvPolicies, srvFaults, bulkCalls, policiesResp, policies, roleCounts,
                   wpc, resp, wg, resultChan, closed, users, errs, result, resultNil,
                   retErr, requests, errLogged, printed, slotWrites>>

NextFqn == CallParseFQN \/ CallParseFQNWithIdentifier

SpecFqn == InitFqn /\ [][NextFqn]_vars

\* The number of occurrences of c in s.
Count(s, c) == Cardinality({i \in 1..Len(s) : s[i] = c})

\* s has exactly three "/"-separated parts.
ThreeParts(s) == Count(s, "/") = 2

\* The third of the three parts of s contains a ":".
ThirdHasColon(s) == \E i \in 1..Len(s) : s[i] = ":" /\ Count(SubSeq(s, 1, i), "/") = 2

\* source/author/name
JoinFQN(f) == f.Source \o <<"/">> \o f.Author \o <<"/">> \o f.Name

\* C25: parseFQNWithIdentifier accepts exactly the strings with three
\* "/"-separated parts whose third part contains a ":"; the name it returns has
\* no ":" (it ends at the first one), and source/author/name:identifier is the
\* input again.  parseFQN accepts exactly the strings with three "/"-separated
\* parts, and source/author/name is the input again.
C25_ParseFQN ==
    pc = "returned" =>
        /\ fn = "parseFQNWithIdentifier" =>
              /\ out.err = Nil <=> (ThreeParts(args[1]) /\ ThirdHasColon(args[1]))
              /\ out.err = Nil =>
                    /\ ":" \notin Range(out.fqn.Name)
                    /\ "/" \notin Range(out.fqn.Source) \cup Range(out.fqn.Author)
                    /\ JoinFQN(out.fqn) \o <<":">> \o out.identifier = args[1]
              /\ out.err # Nil => out.fqn = ZeroFQN /\ out.identifier = <<>>
        /\ fn = "parseFQN" =>
              /\ out.err = Nil <=> ThreeParts(args[1])
              /\ out.err = Nil =>
                    /\ "/" \notin Range(out.fqn.Source) \cup Range(out.fqn.Author)
                    /\ JoinFQN(out.fqn) = args[1]
              /\ out.err # Nil => out.fqn = ZeroFQN

\* C25 witness: a string whose third part holds two colons has been accepted,
\* the second colon being part of the identifier.
C25_Witness ==
    /\ fn = "parseFQNWithIdentifier"
    /\ pc = "returned"
    /\ out.err = Nil
    /\ Count(args[1], ":") = 2
    /\ ":" \in Range(out.identifier)

-----------------------------------------------------------------------------
(* The commands that change the service: user, rbac user, artifact tag *)

LookupCmds == {"userDelete", "userUpdate", "rbacUserAssign", "rbacUserRemove"}
UpdateCmds == {"userUpdate", "userMeUpdate"}
TagCmds == {"artifactTagAdd", "artifactTagRemove"}

\* The rbac user commands of part_004: the user id is an argument, the client
\* call is the one without WithResponse, handleResponse is that of part_001.
OldRbacCmds == {"rbacUserAssignOld", "rbacUserRemoveOld"}

Commands == LookupCmds \cup UpdateCmds \cup TagCmds \cup OldRbacCmds

UpdateFlags == {"new-name", "new-display-name", "new-password"}

\* "hash:"
HashPrefix == <<"h", "a", "s", "h", ":">>

\* Mutant of HasPrefix: every identifier passes.
HasPrefixAlways(s, prefix) == TRUE

\* strings.HasPrefix
HasPrefix(s, prefix) == Len(s) >= Len(prefix) /\ SubSeq(s, 1, Len(prefix)) = prefix

\* strings.TrimPrefix
TrimPrefix(s, prefix) ==
    IF HasPrefix(s, prefix) THEN SubSeq(s, Len(prefix) + 1, Len(s)) ELSE s

\* The Args of each command: cobra.ExactArgs, cobra.NoArgs, and the function of
\* the artifact tag commands.
ArgsValid(f, a) ==
    CASE f \in {"userDelete", "userUpdate"} -> Len(a) = 1
      [] f = "userMeUpdate" -> Len(a) = 0
      [] f \in {"rbacUserAssign", "rbacUserRemove"} \cup OldRbacCmds -> Len(a) = 2
      [] OTHER ->
           /\ Len(a) = 2
           /\ parseFQNWithIdentifier(a[1]).err = Nil
           /\ HasPrefix(parseFQNWithIdentifier(a[1]).identifier, HashPrefix)

\* Mutant of NoUpdateGiven: the flags are not looked at.
NoUpdateGivenNever(fv) == FALSE

\* newName == "" && newDisplayName == "" && newPassword == ""
NoUpdateGiven(fv) == \A k \in UpdateFlags : fv[k] = ""

\* if newName != "" { body.NewName = &newName }
OptFlag(fv, k) == IF fv[k] # "" THEN Ref(fv[k]) ELSE Nil

\* The request that changes the service, per command.
MutateOp(f) ==
    CASE f = "userDelete" -> "DeleteUsersUser"
      [] f = "userUpdate" -> "PatchUsersUser"
      [] f = "userMeUpdate" -> "PatchUsersMe"
      [] f = "rbacUserAssign" -> "PostRbacUser"
      [] f = "rbacUserRemove" -> "DeleteRbacUser"
      [] f = "rbacUserAssignOld" -> "PostRbacUser"
      [] f = "rbacUserRemoveOld" -> "DeleteRbacUser"
      [] f = "artifactTagAdd" -> "PostArtifactTag"
      [] OTHER -> "DeleteArtifactTag"

\* Mutant of MutationBody: the name looked up stands where the id belongs.
MutationBodyByName(f, user, a, fv) ==
    CASE f = "userDelete" -> [Id |-> user.Name]
      [] f = "userUpdate" ->
           [Id |-> user.Name, NewName |-> OptFlag(fv, "new-name"),
            NewDisplayName |-> OptFlag(fv, "new-display-name"),
            NewPassword |-> OptFlag(fv, "new-password")]
      [] f = "userMeUpdate" ->
           [NewName |-> OptFlag(fv, "new-name"),
            NewDisplayName |-> OptFlag(fv, "new-display-name"),
            NewPassword |-> OptFlag(fv, "new-password")]
      [] f \in {"rbacUserAssign", "rbacUserRemove"} -> [UserId |-> user.Name, Role |-> a[2]]
      [] f \in OldRbacCmds -> [UserId |-> a[1], Role |-> a[2]]
      [] f = "artifactTagAdd" ->
           [Fqn |-> parseFQNWithIdentifier(a[1]).fqn,
            VersionHash |-> TrimPrefix(parseFQNWithIdentifier(a[1]).identifier, HashPrefix),
            NewTag |-> a[2]]
      [] OTHER ->
           [Fqn |-> parseFQNWithIdentifier(a[1]).fqn,
            VersionHash |-> TrimPrefix(parseFQNWithIdentifier(a[1]).identifier, HashPrefix),
            Tag |-> a[2]]

\* The body of the request that changes the service; user is the record that
\* getUserByName returned, in the commands that look the user up.
MutationBody(f, user, a, fv) ==
    CASE f = "userDelete" -> [Id |-> user.Id]
      [] f = "userUpdate" ->
           [Id |-> user.Id, NewName |-> OptFlag(fv, "new-name"),
            NewDisplayName |-> OptFlag(fv, "new-display-name"),
            NewPassword |-> OptFlag(fv, "new-password")]
      [] f = "userMeUpdate" ->
           [NewName |-> OptFlag(fv, "new-name"),
            NewDisplayName |-> OptFlag(fv, "new-display-name"),
            NewPassword |-> OptFlag(fv, "new-password")]
      [] f \in {"rbacUserAssign", "rbacUserRemove"} -> [UserId |-> user.Id, Role |-> a[2]]
      [] f \in OldRbacCmds -> [UserId |-> a[1], Role |-> a[2]]
      [] f = "artifactTagAdd" ->
           [Fqn |-> parseFQNWithIdentifier(a[1]).fqn,
            VersionHash |-> TrimPrefix(parseFQNWithIdentifier(a[1]).identifier, HashPrefix),
            NewTag |-> a[2]]
      [] OTHER ->
           [Fqn |-> parseFQNWithIdentifier(a[1]).fqn,
            VersionHash |-> TrimPrefix(parseFQNWithIdentifier(a[1]).identifier, HashPrefix),
            Tag |-> a[2]]

\* handleResponse (part_001): true on a status in 200..299, false otherwise
\* after logging; it never ends the process.
HandleResponseBool(r) == r.status >= 200 /\ r.status < 300

\* handleResponse as user.go and rbac.go call it: (resp, err, successMsg) bool.
HandleResponseOk(r) == ~r.err /\ r.status >= 200 /\ r.status < 300

\* The user the service holds under a name.
UserByName(name) == [Id |-> "id-" \o name, Name |-> name, DisplayName |-> name]

\* Statuses a request of a command is answered with.
CmdStatuses == FailStatuses \cup {200, 403, 418}

\* What GetUsersUser by name is answered with.
LookupReplies(name) ==
    {TransportError, OkReply(UserByName(name))} \cup
    {StatusReply(st) : st \in CmdStatuses \ {200}}

\* What the request that changes the service is answered with.
MutateReplies == {TransportError} \cup {StatusReply(st) : st \in CmdStatuses}

\* cobra validates the arguments before any hook or Run; an error ends the
\* command with a failure.
ValidateArgs ==
    /\ pc = "validate"
    /\ IF ArgsValid(fn, args)
       THEN /\ pc' = "preRun"
            /\ UNCHANGED errLogged
       ELSE /\ pc' = "exited"
            /\ errLogged' = TRUE
    /\ UNCHANGED <<cmdResp, requests>>
    /\ UNCHANGED <<chanLog, flagVals, ctxVars, sources, rows, cfg, fn, keys, srvPolicies,
                   srvFaults, bulkCalls, policiesResp, policies, roleCounts, wpc, resp, wg,
                   resultChan, closed, users, errs, result, resultNil, retErr, printed,
                   slotWrites, args, out>>

\* Run, up to the first request: the check of the update flags, getClient, then
\* the lookup by name or the request that changes the service.
CommandRun ==
    /\ pc = "command"
    /\ fn \in Commands
    /\ IF (fn \in UpdateCmds /\ NoUpdateGiven(flagVals)) \/ ~ClientConfigured(cfg)
       THEN /\ pc' = "exited"
            /\ errLogged' = TRUE
            /\ UNCHANGED requests
       ELSE IF fn \in LookupCmds
            THEN /\ requests' =
                      requests \cup {Request("GetUsersUser", 0, [Name |-> args[1]], cfg)}
                 /\ pc' = "lookup"
                 /\ UNCHANGED errLogged
            ELSE /\ requests' =
                      requests \cup
                      {Request(MutateOp(fn), 0, MutationBody(fn, Nil, args, flagVals), cfg)}
                 /\ pc' = "mutate"
                 /\ UNCHANGED errLogged
    /\ UNCHANGED cmdResp
    /\ UNCHANGED <<chanLog, flagVals, ctxVars, sources, rows, cfg, fn, keys, srvPolicies,
                   srvFaults, bulkCalls, policiesResp, policies, roleCounts, wpc, resp, wg,
                   resultChan, closed, users, errs, result, resultNil, retErr, printed,
                   slotWrites, args, out>>

\* getUserByName returns: handleResponse (common.go) ends the process on a
\* failure; user.Id of a nil JSON200 is a nil dereference; otherwise the request
\* that changes the service is made with the id of the user.
LookupReturns ==
    /\ pc = "lookup"
    /\ \E r \in LookupReplies(args[1]) :
          /\ cmdResp' = Append(cmdResp, r)
          /\ IF HandleResponseFatal(r)
             THEN /\ pc' = "exited"
                  /\ errLogged' = TRUE
                  /\ UNCHANGED requests
             ELSE IF GetUserById(r) = Nil
                  THEN /\ pc' = "panicked"
                       /\ UNCHANGED <<requests, errLogged>>
                  ELSE /\ requests' =
                            requests \cup
                            {Request(MutateOp(fn), 0,
                                     MutationBody(fn, Deref(GetUserById(r)), args, flagVals),
                                     cfg)}
                       /\ pc' = "mutate"
                       /\ UNCHANGED errLogged
    /\ UNCHANGED <<chanLog, flagVals, ctxVars, sources, rows, cfg, fn, keys, srvPolicies,
                   srvFaults, bulkCalls, policiesResp, policies, roleCounts, wpc, resp, wg,
                   resultChan, closed, users, errs, result, resultNil, retErr, printed,
                   slotWrites, args, out>>

\* The request that changes the service returns.  The artifact commands call
\* handleResponse of common.go; user.go and rbac.go leave with os.Exit(1) when
\* handleResponse is false; part_004 leaves on an error of the call and does not
\* look at the result of handleResponse.
MutateReturns ==
    /\ pc = "mutate"
    /\ \E r \in MutateReplies :
          /\ cmdResp' = Append(cmdResp, r)
          /\ CASE fn \in TagCmds ->
                    /\ pc' = IF HandleResponseFatal(r) THEN "exited" ELSE "returned"
                    /\ errLogged' = HandleResponseFatal(r)
               [] fn \in OldRbacCmds ->
                    /\ pc' = IF r.err THEN "exited" ELSE "returned"
                    /\ errLogged' = (r.err \/ ~HandleResponseBool(r))
               [] OTHER ->
                    /\ pc' = IF HandleResponseOk(r) THEN "returned" ELSE "exited"
                    /\ errLogged' = ~HandleResponseOk(r)
    /\ UNCHANGED requests
    /\ UNCHANGED <<chanLog, flagVals, ctxVars, sources, rows, cfg, fn, keys, srvPolicies,
                   srvFaults, bulkCalls, policiesResp, policies, roleCounts, wpc, resp, wg,
                   resultChan, closed, users, errs, result, resultNil, retErr, printed,
                   slotWrites, args, out>>

\* The characters of the strings the tag commands are given.
TagFqns ==
    {<<"s", "/", "a", "/", "n", ":">> \o HashPrefix \o <<"x">>,
     <<"s", "/", "a", "/", "n", ":">> \o HashPrefix \o HashPrefix \o <<"x">>,
     <<"s", "/", "a", "/", "n", ":">> \o HashPrefix,
     <<"s", "/", "a", "/", "n", ":", "t", "a", "g">>,
     <<"s", "/", "a", "/", "n", ":", "x">> \o HashPrefix \o <<"x">>,
     <<"s", "/", "a", "/", "n">>,
     <<"s", "/", "n", ":">> \o HashPrefix \o <<"x">>,
     <<"s", "/", "a", "/", "b", "/", "n", ":">> \o HashPrefix \o <<"x">>}

\* The arguments each command is invoked with in the runs explored.
CommandArgs(f) ==
    CASE f \in {"userDelete", "userUpdate"} -> {<<>>, <<"alice">>, <<"alice", "bob">>}
      [] f = "userMeUpdate" -> {<<>>, <<"alice">>}
      [] f \in {"rbacUserAssign", "rbacUserRemove"} \cup OldRbacCmds ->
           {<<"alice">>, <<"alice", "admin">>}
      [] OTHER -> UNION {{<<q>>, <<q, "v1">>, <<q, "v1", "v2">>} : q \in TagFqns}

\* The values of the update flags; a flag not given holds "".
CommandFlags(f) ==
    IF f \in UpdateCmds
    THEN [UpdateFlags -> {"", "new"}]
    ELSE {NoFlags}

InitCommands ==
    /\ fn \in Commands
    /\ args \in CommandArgs(fn)
    /\ flagVals \in CommandFlags(fn)
    /\ cmdResp = <<>>
    /\ out = Nil
    /\ pc = "validate"
    /\ keys = <<>>
    /\ srvPolicies = <<>>
    /\ srvFaults = FALSE
    /\ sources \in CliSources
    /\ cfg = ZeroCfg
    /\ InitCtx
    /\ InitLocals

NextCommands ==
    \/ ValidateArgs
    \/ PersistentPreRun
    \/ CommandRun
    \/ LookupReturns
    \/ MutateReturns

SpecCommands == InitCommands /\ [][NextCommands]_vars

\* A reply handleResponse is to let the command continue on.
Continuable(r) == ~r.err /\ r.status \in 200..299

\* C21 (as claimed): a command goes on past handleResponse only on a reply
\* without error and with a status in 200..299; with any other reply the command
\* ends with a failure.
C21_FailureIsFatal ==
    fn \in Commands =>
        /\ pc = "returned" => \A i \in 1..Len(cmdResp) : Continuable(cmdResp[i])
        /\ (pc = "exited" /\ Len(cmdResp) >= 1) => ~Continuable(cmdResp[Len(cmdResp)])

\* The update flags given a non-empty value.
FlagsGiven == {k \in DOMAIN flagVals : flagVals[k] # ""}

\* The field of the PATCH body each flag sets.
BodyField(body, k) ==
    CASE k = "new-name" -> body.NewName
      [] k = "new-display-name" -> body.NewDisplayName
      [] OTHER -> body.NewPassword

\* C22: `user update` and `user me update` with no update flag given a non-empty
\* value end with a failure and issue no request, neither the lookup nor the
\* PATCH; otherwise the PATCH body sets exactly the fields whose flag is
\* non-empty, to the value of the flag.
C22_UpdateNeedsAFlag ==
    fn \in UpdateCmds =>
        /\ FlagsGiven = {} =>
              /\ requests = {}
              /\ pc \in {"validate", "preRun", "command", "exited"}
              /\ pc = "exited" => errLogged
        /\ \A r \in requests :
              r.op = MutateOp(fn) =>
                  \A k \in UpdateFlags :
                      BodyField(r.param, k) =
                          IF k \in FlagsGiven THEN Ref(flagVals[k]) ELSE Nil

\* C22 witness: `user update alice --new-display-name new` has sent its PATCH,
\* which sets the display name alone.
C22_Witness ==
    /\ fn = "userUpdate"
    /\ FlagsGiven = {"new-display-name"}
    /\ \E r \in requests :
          /\ r.op = "PatchUsersUser"
          /\ r.param.NewDisplayName = Ref("new")
          /\ r.param.NewName = Nil

\* The user id a request body carries.
IdOf(body) == IF "Id" \in DOMAIN body THEN body.Id ELSE body.UserId

IdentifierPart(s) ==
    LET colons == {i \in 1..Len(s) : s[i] = ":" /\ Count(SubSeq(s, 1, i), "/") = 2}
        first == CHOOSE i \in colons : \A j \in colons : i <= j
    IN  SubSeq(s, first + 1, Len(s))

StartsWithHash(s) ==
    Len(s) >= Len(HashPrefix) /\ \A j \in 1..Len(HashPrefix) : s[j] = HashPrefix[j]

\* Two arguments, the first an FQN whose identifier starts with "hash:".
TagArgsOk ==
    /\ Len(args) = 2
    /\ ThreeParts(args[1])
    /\ ThirdHasColon(args[1])
    /\ StartsWithHash(IdentifierPart(args[1]))

\* C24: `artifact tag add` and `artifact tag remove` end at the validation of the
\* arguments, without any request, unless they are given two arguments of which
\* the first has an identifier starting with "hash:"; the request of an accepted
\* command carries the identifier without that prefix as the version hash (and the
\* second argument as the tag).
C24_TagByHashOnly ==
    fn \in TagCmds =>
        /\ ~TagArgsOk =>
              /\ pc \in {"validate", "exited"}
              /\ requests = {}
              /\ cmdResp = <<>>
        /\ \A r \in requests :
              /\ r.op = MutateOp(fn)
              /\ JoinFQN(r.param.Fqn) \o <<":">> \o HashPrefix \o r.param.VersionHash = args[1]
              /\ args[2] = IF fn = "artifactTagAdd" THEN r.param.NewTag ELSE r.param.Tag

\* C24 witness: `artifact tag add s/a/n:hash:hash:x v1` has been answered; the
\* version hash sent is hash:x, one prefix removed.
C24_Witness ==
    /\ fn = "artifactTagAdd"
    /\ pc = "returned"
    /\ \E r \in requests :
          /\ r.op = "PostArtifactTag"
          /\ r.param.VersionHash = HashPrefix \o <<"x">>
          /\ r.param.NewTag = "v1"

====
